---- MODULE Spec2Model ----
(***************************************************************************)
(* State-machine model of the CV upload service (src/main.py): the         *)
(* content-addressed, expiring pickle cache (get_file_hash,                *)
(* get_from_cache, save_to_cache), the PDF text extractor, the structuring *)
(* (completion) service and the upload_cv handler that orchestrates them.  *)
(***************************************************************************)
EXTENDS Integers, Sequences, FiniteSets, TLC

\* ------------------------------------------------------------------ bounds
\* Number of upload requests a behaviour may receive.
MaxUploads == 2
\* Number of times the wall clock advances in a behaviour.
MaxTicks == 1

\* ------------------------------------------------------ program constants
\* main.py:31  CACHE_EXPIRY = 60 * 60 * 24 * 7
CACHE_EXPIRY == 60 * 60 * 24 * 7

\* Handler instances that may be in flight at once (event-loop tasks or
\* server worker processes sharing the cv_cache directory).
Workers == {"w1", "w2"}

\* Amounts by which time.time() may grow between two steps: an entry
\* written just before ages to exactly the expiry time, or just past it.
ClockSteps == {CACHE_EXPIRY, CACHE_EXPIRY + 1}

\* ------------------------------------------------------------ input data
\* File names, as sequences of characters.
Filenames ==
  { <<"a", ".", "p", "d", "f">>,
    <<"A", ".", "P", "D", "F">>,
    <<"a", "p", "d", "f">>,
    <<"a", ".", "d", "o", "c">> }

\* Uploaded byte contents, described by what PyPDF2 makes of them:
\* parse = FALSE: PdfReader raises; otherwise pages holds each page's text
\* layer (a sequence of tokens, <<>> for a page without text).
Contents ==
  { [parse |-> FALSE, pages |-> <<>>],
    [parse |-> TRUE,  pages |-> <<>>],
    [parse |-> TRUE,  pages |-> << <<>> >>],
    [parse |-> TRUE,  pages |-> << <<"John", "Doe">> >>] }

NoFile == [parse |-> FALSE, pages |-> << <<"-">> >>]

\* JSON mappings the structuring service may return: sequences of
\* <<key, value>> pairs with distinct keys (a dict in insertion order).
Results ==
  { << >>,
    << <<"name", "John">> >>,
    << <<"name", "John">>, <<"title", "Eng">> >> }

\* Optional values (Python None / a value).
None == [some |-> FALSE, val |-> << >>]
Some(v) == [some |-> TRUE, val |-> v]

\* Python truthiness of an optional mapping or string: None, {} and ""
\* are falsy, everything else is truthy.
Truthy(x) == x.some /\ Len(x.val) > 0

\* ------------------------------------------------------- pure functions
\* str.lower() on one character.
LowerChar(ch) ==
  CASE ch = "A" -> "a"
    [] ch = "P" -> "p"
    [] ch = "D" -> "d"
    [] ch = "F" -> "f"
    [] OTHER -> ch

Lower(s) == [i \in 1..Len(s) |-> LowerChar(s[i])]

\* str.endswith(suffix)
EndsWith(s, suffix) ==
  /\ Len(s) >= Len(suffix)
  /\ SubSeq(s, Len(s) - Len(suffix) + 1, Len(s)) = suffix

\* Variant of the check: the suffix compared without its dot.
IsPdfNameNoDot(fn) == EndsWith(Lower(fn), <<"p", "d", "f">>)

\* main.py:145  file.filename.lower().endswith('.pdf')
IsPdfName(fn) == EndsWith(Lower(fn), <<".", "p", "d", "f">>)

\* main.py:45-47  hashlib.md5(content).hexdigest(): a digest of the bytes
\* alone, distinct for the distinct contents of the model.
get_file_hash(content) ==
  CASE ~content.parse -> "h0"
    [] content.parse /\ content.pages = << >> -> "h1"
    [] content.parse /\ content.pages = << <<>> >> -> "h2"
    [] OTHER -> "h3"

Hashes == {get_file_hash(c) : c \in Contents}

\* main.py:98-101  text += page_text + "\n" for every page, in page order.
RECURSIVE ConcatPages(_)
ConcatPages(pages) ==
  IF pages = << >> THEN << >>
  ELSE Head(pages) \o <<"\n">> \o ConcatPages(Tail(pages))

\* ---- pickle: the record written by save_to_cache is the opcode stream of
\* pickle.dump((timestamp, result)); every opcode is [op, n, s].
Op(o, n, s) == [op |-> o, n |-> n, s |-> s]

RECURSIVE DumpItems(_)
DumpItems(m) ==
  IF m = << >> THEN << >>
  ELSE << Op("STR", 0, Head(m)[1]), Op("STR", 0, Head(m)[2]) >>
       \o DumpItems(Tail(m))

\* pickle.dumps((timestamp, result))
PickleDumps(timestamp, result) ==
  << Op("FLOAT", timestamp, ""), Op("EMPTY_DICT", 0, "") >>
  \o (IF result = << >> THEN << >>
      ELSE <<Op("MARK", 0, "")>> \o DumpItems(result) \o <<Op("SETITEMS", 0, "")>>)
  \o << Op("TUPLE2", 0, ""), Op("STOP", 0, "") >>

RECURSIVE LoadItems(_)
LoadItems(ops) ==
  IF Len(ops) < 2 THEN << >>
  ELSE << <<ops[1].s, ops[2].s>> >> \o LoadItems(Tail(Tail(ops)))

\* pickle.load reads up to the first STOP opcode and no further: bytes an
\* earlier, longer write left behind it are never looked at.
StopAt(data) ==
  IF \E i \in 1..Len(data) : data[i].op = "STOP"
  THEN CHOOSE i \in 1..Len(data) :
         /\ data[i].op = "STOP"
         /\ \A j \in 1..(i - 1) : data[j].op # "STOP"
  ELSE 0

Frame(data) == SubSeq(data, 1, StopAt(data))

\* Whether the opcodes up to STOP are a well-formed (timestamp, result)
\* pair.
FrameValid(data) ==
  /\ Len(data) >= 4
  /\ data[1].op = "FLOAT"
  /\ data[2].op = "EMPTY_DICT"
  /\ data[Len(data) - 1].op = "TUPLE2"
  /\ data[Len(data)].op = "STOP"
  /\ \/ Len(data) = 4
     \/ /\ Len(data) >= 8
        /\ data[3].op = "MARK"
        /\ data[Len(data) - 2].op = "SETITEMS"
        /\ (Len(data) - 6) % 2 = 0
        /\ \A i \in 4..(Len(data) - 3) : data[i].op = "STR"

\* Whether pickle.load accepts the stream (a truncated stream raises
\* EOFError / UnpicklingError).
PickleValid(data) == FrameValid(Frame(data))

FrameLoads(data) ==
  [timestamp |-> data[1].n,
   result |-> IF Len(data) = 4 THEN << >>
              ELSE LoadItems(SubSeq(data, 4, Len(data) - 3))]

\* pickle.load of a valid stream: the (timestamp, result) pair.
PickleLoads(data) == FrameLoads(Frame(data))

\* ------------------------------------------------------------------ state
VARIABLES
  now,      \* the wall clock, time.time()
  ticks,    \* how often the clock advanced
  uploads,  \* number of requests received
  cache,    \* cv_cache/<hash>.pkl for every hash: [exists, data]
  tmp,      \* the temporary files that exist, named by the request id
  loc,      \* per handler instance: position and local variables; fd is
            \* the record file it holds open for writing: "none", "live"
            \* (the file the record's name refers to) or "orphan" (a
            \* file unlinked since the open)
  prev,     \* the most recently completed request (history)
  stored,   \* per hash: the most recent save_to_cache that opened the
            \* record and what it wrote (history)
  answered  \* per hash: the mappings the structuring service returned (history)

vars == <<now, ticks, uploads, cache, tmp, loc, prev, stored, answered>>

Absent == [exists |-> FALSE, data |-> << >>]

NoResponse == [status |-> 0, raised |-> FALSE, body |-> << >>]

\* The locals of a handler instance that serves no request.
Blank ==
  [pc |-> "idle", id |-> 0, filename |-> << >>, file |-> NoFile,
   file_hash |-> "", cached_result |-> None, lk |-> "", t_lookup |-> 0,
   t_entry |-> 0, temp_file_path |-> 0, cv_text |-> None,
   extracted_json |-> None, fd |-> "none", saved |-> "", t_store |-> 0,
   response |-> NoResponse, outcome |-> "", log |-> << >>]

NoPrev ==
  [some |-> FALSE, file |-> NoFile, outcome |-> "", body |-> << >>,
   saved |-> "", t_store |-> 0]

NoStore == [some |-> FALSE, ok |-> FALSE, result |-> << >>, timestamp |-> 0]

Init ==
  /\ now = 0
  /\ ticks = 0
  /\ uploads = 0
  /\ cache = [k \in Hashes |-> Absent]
  /\ tmp = {}
  /\ loc = [w \in Workers |-> Blank]
  /\ prev = NoPrev
  /\ stored = [k \in Hashes |-> NoStore]
  /\ answered = [k \in Hashes |-> {}]

Logged(l, ev) == [l EXCEPT !.log = Append(@, ev)]

\* --------------------------------------------------- the handler's exits
\* main.py:146-147  raise HTTPException(400) before the try block: the
\* framework answers with status 400.
RejectNonPdf(l) ==
  [l EXCEPT !.pc = "done", !.outcome = "rejected",
            !.response = [status |-> 400, raised |-> TRUE,
                          body |-> << <<"detail", "Only PDF files are accepted">> >>]]

\* main.py:192-194  except Exception as e: return {"error": str(e)}
HandlerExcept(l, msg) ==
  [l EXCEPT !.pc = "done", !.outcome = "error",
            !.response = [status |-> 200, raised |-> FALSE,
                          body |-> << <<"error", msg>> >>]]

\* main.py:161 and 187  return <mapping>: a 200 response with that body.
ReturnBody(l, body, how) ==
  [l EXCEPT !.pc = "done", !.outcome = how,
            !.response = [status |-> 200, raised |-> FALSE, body |-> body]]

\* ------------------------------------------------------------ upload_cv
\* main.py:140-147  a request arrives; the file name is validated.
Receive(w, fn, c) ==
  /\ loc[w].pc = "idle"
  /\ uploads < MaxUploads
  /\ uploads' = uploads + 1
  /\ LET l == [Blank EXCEPT !.id = uploads + 1, !.filename = fn, !.file = c]
     IN loc' = [loc EXCEPT ![w] =
                  IF ~IsPdfName(fn) THEN RejectNonPdf(l)
                  ELSE [l EXCEPT !.pc = "read"]]
  /\ UNCHANGED <<now, ticks, cache, tmp, prev, stored, answered>>

\* main.py:151-155  content = await file.read(); file_hash = get_file_hash(content)
ReadHash(w) ==
  /\ loc[w].pc = "read"
  /\ loc' = [loc EXCEPT ![w] =
               [Logged(Logged(loc[w], "read"), "hash")
                  EXCEPT !.file_hash = get_file_hash(loc[w].file),
                         !.pc = "lookup"]]
  /\ UNCHANGED <<now, ticks, uploads, cache, tmp, prev, stored, answered>>

\* ------------------------------------------------------- get_from_cache
\* Variant: get_from_cache without its except clause, the read error
\* reaches the handler.
OnCacheReadErrorRaise(l) ==
  HandlerExcept([l EXCEPT !.cached_result = None, !.lk = "error"],
                "Error reading cache")

\* main.py:71-73  except Exception: log and return None
OnCacheReadError(l) ==
  [l EXCEPT !.cached_result = None, !.lk = "error", !.pc = "check"]

\* Variant: an entry aged exactly CACHE_EXPIRY counts as expired.
ExpiredAtBoundary(n, timestamp) == n - timestamp >= CACHE_EXPIRY

\* main.py:63  time.time() - timestamp > CACHE_EXPIRY
Expired(n, timestamp) == n - timestamp > CACHE_EXPIRY

\* main.py:52-56  if not cache_file.exists(): return None
CacheExists(w) ==
  /\ loc[w].pc = "lookup"
  /\ LET l == [Logged(loc[w], "lookup") EXCEPT !.t_lookup = now]
     IN loc' = [loc EXCEPT ![w] =
                  IF ~cache[l.file_hash].exists
                  THEN [l EXCEPT !.cached_result = None, !.lk = "absent",
                                 !.pc = "check"]
                  ELSE [l EXCEPT !.pc = "load"]]
  /\ UNCHANGED <<now, ticks, uploads, cache, tmp, prev, stored, answered>>

\* Variant: "return result or None", an empty mapping reported as absent.
CacheLoadResultFalsy(l, rec, n) ==
  IF ~rec.exists \/ ~PickleValid(rec.data) THEN OnCacheReadError(l)
  ELSE LET e == PickleLoads(rec.data)
       IN IF Expired(n, e.timestamp)
          THEN [l EXCEPT !.lk = "expired", !.t_lookup = n,
                         !.t_entry = e.timestamp, !.pc = "unlink"]
          ELSE [l EXCEPT !.cached_result =
                           IF e.result = << >> THEN None ELSE Some(e.result),
                         !.lk = "hit", !.t_lookup = n,
                         !.t_entry = e.timestamp, !.pc = "check"]

\* main.py:58-64 and 68-69  open, pickle.load, then the expiry test.
CacheLoadResult(l, rec, n) ==
  IF ~rec.exists \/ ~PickleValid(rec.data) THEN OnCacheReadError(l)
  ELSE LET e == PickleLoads(rec.data)
       IN IF Expired(n, e.timestamp)
          THEN [l EXCEPT !.lk = "expired", !.t_lookup = n,
                         !.t_entry = e.timestamp, !.pc = "unlink"]
          ELSE [l EXCEPT !.cached_result = Some(e.result), !.lk = "hit",
                         !.t_lookup = n, !.t_entry = e.timestamp,
                         !.pc = "check"]

\* Variant: a record that cannot be read is deleted by the lookup.
CacheLoadPurge(w) ==
  /\ loc[w].pc = "load"
  /\ LET k == loc[w].file_hash
         r == CacheLoadResult(loc[w], cache[k], now)
     IN /\ loc' = [loc EXCEPT ![w] = r]
        /\ cache' = IF r.lk = "error" THEN [cache EXCEPT ![k] = Absent]
                    ELSE cache
  /\ UNCHANGED <<now, ticks, uploads, tmp, prev, stored, answered>>

\* main.py:59-60  with open(cache_file, "rb") as f: pickle.load(f)
CacheLoad(w) ==
  /\ loc[w].pc = "load"
  /\ loc' = [loc EXCEPT ![w] =
               CacheLoadResult(loc[w], cache[loc[w].file_hash], now)]
  /\ UNCHANGED <<now, ticks, uploads, cache, tmp, prev, stored, answered>>

\* Variant: the expired record is reported absent but not unlinked.
CacheUnlinkKeep(w) ==
  /\ loc[w].pc = "unlink"
  /\ loc' = [loc EXCEPT ![w] =
               [loc[w] EXCEPT !.cached_result = None, !.pc = "check"]]
  /\ UNCHANGED <<now, ticks, uploads, cache, tmp, prev, stored, answered>>

\* main.py:65-66  cache_file.unlink(); return None  (unlink of a file that
\* is gone raises FileNotFoundError, caught at 71-73).  The name is removed
\* whatever the file holds by now; a writer that has it open keeps writing
\* to the unlinked file.
CacheUnlink(w) ==
  /\ loc[w].pc = "unlink"
  /\ LET k == loc[w].file_hash
     IN IF cache[k].exists
        THEN /\ cache' = [cache EXCEPT ![k] = Absent]
             /\ loc' = [u \in Workers |->
                          IF u = w
                          THEN [loc[w] EXCEPT !.cached_result = None,
                                              !.pc = "check"]
                          ELSE IF loc[u].fd = "live" /\ loc[u].file_hash = k
                               THEN [loc[u] EXCEPT !.fd = "orphan"]
                               ELSE loc[u]]
        ELSE /\ cache' = cache
             /\ loc' = [loc EXCEPT ![w] = OnCacheReadError(loc[w])]
  /\ UNCHANGED <<now, ticks, uploads, tmp, prev, stored, answered>>

\* main.py:159-161  if cached_result: return cached_result
CheckCached(w) ==
  /\ loc[w].pc = "check"
  /\ loc' = [loc EXCEPT ![w] =
               IF Truthy(loc[w].cached_result)
               THEN ReturnBody(loc[w], loc[w].cached_result.val, "cached")
               ELSE [loc[w] EXCEPT !.pc = "tmpfile"]]
  /\ UNCHANGED <<now, ticks, uploads, cache, tmp, prev, stored, answered>>

\* main.py:165-167  NamedTemporaryFile(delete=False): a fresh file holding
\* the content.
TempWrite(w) ==
  /\ loc[w].pc = "tmpfile"
  /\ tmp' = tmp \cup {loc[w].id}
  /\ loc' = [loc EXCEPT ![w] =
               [Logged(loc[w], "tmpfile") EXCEPT !.temp_file_path = loc[w].id,
                                                  !.pc = "extract"]]
  /\ UNCHANGED <<now, ticks, uploads, cache, prev, stored, answered>>

\* main.py:88-107  extract_text_from_pdf
extract_text_from_pdf(content) ==
  IF ~content.parse THEN None ELSE Some(ConcatPages(content.pages))

\* Variant: a failing extraction is tried again until it succeeds.
ExtractStepRetry(l) ==
  LET r == extract_text_from_pdf(l.file)
  IN IF ~r.some
     THEN l
     ELSE [Logged(l, "extract") EXCEPT !.cv_text = r, !.pc = "rmtmp"]

\* main.py:172  cv_text = extract_text_from_pdf(temp_file_path); a raise
\* goes straight to the handler's except clause.
ExtractStep(l) ==
  LET r == extract_text_from_pdf(l.file)
  IN IF ~r.some
     THEN HandlerExcept(Logged(l, "extract"), "Failed to extract text from PDF")
     ELSE [Logged(l, "extract") EXCEPT !.cv_text = r, !.pc = "rmtmp"]

Extract(w) ==
  /\ loc[w].pc = "extract"
  /\ loc' = [loc EXCEPT ![w] = ExtractStep(loc[w])]
  /\ UNCHANGED <<now, ticks, uploads, cache, tmp, prev, stored, answered>>

\* Variant: the HTTPException of line 190 is re-raised instead of caught.
AfterExtractEscapes(l) ==
  IF Truthy(l.cv_text) THEN [l EXCEPT !.pc = "structure"]
  ELSE [l EXCEPT !.pc = "done", !.outcome = "error",
                 !.response = [status |-> 400, raised |-> TRUE,
                               body |-> << <<"detail",
                                  "Could not extract text from the PDF">> >>]]

\* main.py:179 and 188-190  if cv_text: ... else: raise HTTPException(400),
\* which the except clause of 192 catches like any other exception.
AfterExtract(l) ==
  IF Truthy(l.cv_text) THEN [l EXCEPT !.pc = "structure"]
  ELSE HandlerExcept(l, "400: Could not extract text from the PDF")

\* main.py:176-179  os.unlink(temp_file_path), then the branch on cv_text.
UnlinkTemp(w) ==
  /\ loc[w].pc = "rmtmp"
  /\ tmp' = tmp \ {loc[w].temp_file_path}
  /\ loc' = [loc EXCEPT ![w] = AfterExtract(Logged(loc[w], "rmtmp"))]
  /\ UNCHANGED <<now, ticks, uploads, cache, prev, stored, answered>>

\* Variant: a failure of the service is turned into a mapping and cached.
StructureStepPartial(l, out) ==
  IF ~out.some
  THEN [Logged(l, "structure") EXCEPT
          !.extracted_json = Some(<< <<"error", "OpenAI API error">> >>),
          !.pc = "save"]
  ELSE [Logged(l, "structure") EXCEPT !.extracted_json = out, !.pc = "save"]

\* main.py:110-136  generate_json_from_text: the service answers with a
\* JSON mapping (out = Some(mapping)) or the call / json.loads raises
\* (out = None).
StructureStep(l, out) ==
  IF ~out.some THEN HandlerExcept(Logged(l, "structure"), "OpenAI API error")
  ELSE [Logged(l, "structure") EXCEPT !.extracted_json = out, !.pc = "save"]

\* main.py:181
Structure(w, out) ==
  /\ loc[w].pc = "structure"
  /\ loc' = [loc EXCEPT ![w] = StructureStep(loc[w], out)]
  /\ answered' = IF out.some
                 THEN [answered EXCEPT ![loc[w].file_hash] = @ \cup {out.val}]
                 ELSE answered
  /\ UNCHANGED <<now, ticks, uploads, cache, tmp, prev, stored>>

\* --------------------------------------------------------- save_to_cache
\* Variant: save_to_cache without its except clause.
OnCacheWriteErrorRaise(l) ==
  HandlerExcept([l EXCEPT !.saved = "fail"], "Error saving to cache")

\* main.py:84-85  except Exception: log, return normally
OnCacheWriteError(l) == [l EXCEPT !.saved = "fail", !.pc = "return"]

\* Variant: the record is opened for appending.
OpenModeAppend == "ab"

\* main.py:81  the mode of open(cache_file, "wb")
OpenMode == "wb"

\* main.py:78-81  open(cache_file, "wb"): creates or truncates the record;
\* ok = FALSE: open raises (directory gone, permissions).
SaveOpen(w, ok) ==
  /\ loc[w].pc = "save"
  /\ LET l == Logged(loc[w], "store")
         k == l.file_hash
     IN IF ok
        THEN /\ cache' = [cache EXCEPT ![k] =
                             [exists |-> TRUE,
                              data |-> IF OpenMode = "wb" THEN << >>
                                       ELSE cache[k].data]]
             /\ loc' = [loc EXCEPT ![w] = [l EXCEPT !.fd = "live",
                                                     !.pc = "dump"]]
             /\ stored' = stored
        ELSE /\ cache' = cache
             /\ loc' = [loc EXCEPT ![w] = OnCacheWriteError(l)]
             /\ stored' = stored
  /\ UNCHANGED <<now, ticks, uploads, tmp, prev, answered>>

\* The bytes a pickle.dump that fails part-way (disk full) leaves behind.
PartialCuts(data) == {0, Len(data) - 1}

\* main.py:82-83  pickle.dump((time.time(), result), f) into the opened
\* file; ok = FALSE: the write raises and leaves a truncated stream.  The
\* bytes go to the start of the file this writer opened, over what another
\* writer of the same file put there; a record that was unlinked since the
\* open is written to the orphaned file only.
SaveDump(w, ok) ==
  /\ loc[w].pc = "dump"
  /\ LET l == loc[w]
         k == l.file_hash
         data == PickleDumps(now, l.extracted_json.val)
     IN \E written \in IF ok THEN {data}
                       ELSE {SubSeq(data, 1, cut) : cut \in PartialCuts(data)} :
        /\ cache' = IF l.fd = "live"
                    THEN [cache EXCEPT ![k] =
                            [exists |-> TRUE,
                             data |-> IF OpenMode = "wb"
                                      THEN written
                                           \o SubSeq(cache[k].data,
                                                     Len(written) + 1,
                                                     Len(cache[k].data))
                                      ELSE cache[k].data \o written]]
                    ELSE cache
        /\ loc' = [loc EXCEPT ![w] =
                     IF ok THEN [l EXCEPT !.fd = "none", !.saved = "ok",
                                          !.t_store = now, !.pc = "return"]
                     ELSE [OnCacheWriteError(l) EXCEPT !.fd = "none"]]
        /\ stored' = [stored EXCEPT ![k] =
                        IF ok THEN [some |-> TRUE, ok |-> TRUE,
                                    result |-> l.extracted_json.val,
                                    timestamp |-> now]
                        ELSE [NoStore EXCEPT !.some = TRUE]]
  /\ UNCHANGED <<now, ticks, uploads, tmp, prev, answered>>

\* main.py:187  return extracted_json
Return(w) ==
  /\ loc[w].pc = "return"
  /\ loc' = [loc EXCEPT ![w] =
               ReturnBody(loc[w], loc[w].extracted_json.val, "fresh")]
  /\ UNCHANGED <<now, ticks, uploads, cache, tmp, prev, stored, answered>>

\* The response has been sent: the instance is free for the next request.
Summary(l) ==
  [some |-> TRUE, file |-> l.file, outcome |-> l.outcome,
   body |-> l.response.body, saved |-> l.saved, t_store |-> l.t_store]

Finish(w) ==
  /\ loc[w].pc = "done"
  /\ loc' = [loc EXCEPT ![w] = Blank]
  /\ prev' = Summary(loc[w])
  /\ UNCHANGED <<now, ticks, uploads, cache, tmp, stored, answered>>

\* Wall-clock time passes.
Tick(d) ==
  /\ ticks < MaxTicks
  /\ ticks' = ticks + 1
  /\ now' = now + d
  /\ UNCHANGED <<uploads, cache, tmp, loc, prev, stored, answered>>

\* ------------------------------------------------------- specifications
Step(w) ==
  \/ ReadHash(w)
  \/ CacheExists(w)
  \/ CacheLoad(w)
  \/ CacheUnlink(w)
  \/ CheckCached(w)
  \/ TempWrite(w)
  \/ Extract(w)
  \/ UnlinkTemp(w)
  \/ \E out \in {None} \cup {Some(r) : r \in Results} : Structure(w, out)
  \/ \E ok \in BOOLEAN : SaveOpen(w, ok)
  \/ \E ok \in BOOLEAN : SaveDump(w, ok)
  \/ Return(w)
  \/ Finish(w)

\* Requests are served one after the other by a single handler instance
\* (one event loop: upload_cv does not yield between reading the file and
\* returning).
AllIdle == \A w \in Workers : loc[w].pc = "idle"

Next ==
  \/ \E fn \in Filenames, c \in Contents : AllIdle /\ Receive("w1", fn, c)
  \/ \E w \in Workers : Step(w)
  \/ \E d \in ClockSteps : Tick(d)

Spec == Init /\ [][Next]_vars

\* Requests may overlap (several server processes share the cv_cache
\* directory): the steps of the handler instances interleave.
NextOverlap ==
  \/ \E w \in Workers, fn \in Filenames, c \in Contents : Receive(w, fn, c)
  \/ \E w \in Workers : Step(w)
  \/ \E d \in ClockSteps : Tick(d)

SpecOverlap == Init /\ [][NextOverlap]_vars

\* ---- the service started over a cache directory an earlier run left
\* main.py:27-28  CACHE_DIR.mkdir(exist_ok=True): the records of earlier
\* runs are kept.  What the earlier run did for the text PDF: nothing, a
\* completed save_to_cache of result r stamped t (t = 1: the clock was set
\* back since), or a save_to_cache whose write failed after cut opcodes.
TextPdf == [parse |-> TRUE, pages |-> << <<"John", "Doe">> >>]

PdfName == <<"a", ".", "p", "d", "f">>

WarmStamps == {0, 1}

EarlierRuns ==
  {[kind |-> "none", r |-> << >>, t |-> 0, cut |-> 0]}
  \cup {[kind |-> "stored", r |-> r, t |-> t, cut |-> 0] :
          r \in Results, t \in WarmStamps}
  \cup {[kind |-> "torn", r |-> << <<"name", "John">> >>, t |-> 0,
          cut |-> cut] :
          cut \in PartialCuts(PickleDumps(0, << <<"name", "John">> >>))}

RecordLeft(e) ==
  CASE e.kind = "none" -> Absent
    [] e.kind = "stored" -> [exists |-> TRUE, data |-> PickleDumps(e.t, e.r)]
    [] OTHER -> [exists |-> TRUE,
                 data |-> SubSeq(PickleDumps(e.t, e.r), 1, e.cut)]

StoreLeft(e) ==
  CASE e.kind = "none" -> NoStore
    [] e.kind = "stored" -> [some |-> TRUE, ok |-> TRUE, result |-> e.r,
                             timestamp |-> e.t]
    [] OTHER -> [NoStore EXCEPT !.some = TRUE]

InitWarm ==
  /\ now = 0
  /\ ticks = 0
  /\ uploads = 0
  /\ tmp = {}
  /\ loc = [w \in Workers |-> Blank]
  /\ prev = NoPrev
  /\ \E e \in EarlierRuns :
       /\ cache = [k \in Hashes |->
                    IF k = get_file_hash(TextPdf) THEN RecordLeft(e) ELSE Absent]
       /\ stored = [k \in Hashes |->
                     IF k = get_file_hash(TextPdf) THEN StoreLeft(e) ELSE NoStore]
       /\ answered = [k \in Hashes |->
                       IF k = get_file_hash(TextPdf) /\ e.kind # "none"
                       THEN {e.r} ELSE {}]

\* One request at a time, every one an upload of the text PDF.
NextWarm ==
  \/ AllIdle /\ Receive("w1", PdfName, TextPdf)
  \/ \E w \in Workers : Step(w)
  \/ \E d \in ClockSteps : Tick(d)

SpecWarm == InitWarm /\ [][NextWarm]_vars

\* Two handler instances in flight at once, both serving uploads of the
\* text PDF.
NextWarmOverlap ==
  \/ \E w \in Workers : Receive(w, PdfName, TextPdf)
  \/ \E w \in Workers : Step(w)
  \/ \E d \in ClockSteps : Tick(d)

SpecWarmOverlap == InitWarm /\ [][NextWarmOverlap]_vars

\* upload_cv runs every step to its end: it has no loop and waits for
\* nothing but the extractor and the structuring service, which return or
\* fail.  A handler instance that can take a step eventually takes one.
Fairness == \A w \in Workers : WF_vars(Step(w))

\* One request at a time, drawn from uploads that between them take every
\* path of the handler: a name that is not a PDF's, and under a PDF's name
\* every kind of content.
PathInputs ==
  {<< <<"a", ".", "d", "o", "c">>, TextPdf >>}
  \cup {<<PdfName, c>> : c \in Contents}

NextPaths ==
  \/ \E inp \in PathInputs : AllIdle /\ Receive("w1", inp[1], inp[2])
  \/ \E w \in Workers : Step(w)
  \/ \E d \in ClockSteps : Tick(d)

SpecFair == Init /\ [][NextPaths]_vars /\ Fairness

\* ------------------------------------------------- vocabulary of claims
InLog(l, ev) == \E i \in 1..Len(l.log) : l.log[i] = ev

\* The file name ends in ".pdf", compared case-insensitively.
PdfSuffixCI(fn) ==
  /\ Len(fn) >= 4
  /\ fn[Len(fn) - 3] = "."
  /\ fn[Len(fn) - 2] \in {"p", "P"}
  /\ fn[Len(fn) - 1] \in {"d", "D"}
  /\ fn[Len(fn)] \in {"f", "F"}

\* A response body that carries nothing but an `error` string field.
IsErrorBody(body) == Len(body) = 1 /\ body[1][1] = "error"

\* A parseable PDF none of whose pages has a text layer.
NoTextLayer(c) == c.parse /\ \A i \in 1..Len(c.pages) : c.pages[i] = << >>

\* The request failed in the extractor, on empty text, or in the
\* structuring service.
ExtractorFailed(l) == InLog(l, "extract") /\ ~l.cv_text.some
EmptyText(l) == l.cv_text.some /\ l.cv_text.val = << >>
StructuringFailed(l) == InLog(l, "structure") /\ ~l.extracted_json.some
Failed(l) == ExtractorFailed(l) \/ EmptyText(l) \/ StructuringFailed(l)

\* ----------------------------------------------------------------- claims
\* C1: repeat-upload idempotence.  When an upload of some bytes succeeded
\* and its cache store succeeded, the next upload of the same bytes that
\* completes within the TTL of that store returns the same body and invokes
\* neither the text extractor nor the structuring service, whatever mapping
\* the service had returned (the empty mapping included).
C1_RepeatUploadIdempotent ==
  \A w \in Workers :
    LET l == loc[w]
    IN (/\ l.pc = "done"
        /\ PdfSuffixCI(l.filename)
        /\ prev.some
        /\ prev.file = l.file
        /\ prev.outcome = "fresh"
        /\ prev.saved = "ok"
        /\ now - prev.t_store <= CACHE_EXPIRY)
       => /\ l.response.status = 200
          /\ l.response.body = prev.body
          /\ ~InLog(l, "extract")
          /\ ~InLog(l, "structure")

\* C2: the temporary file of a request is gone once the request has reached
\* a terminal outcome (success, empty-text error, extractor failure,
\* structuring failure).
C2_TempFileRemoved ==
  \A w \in Workers : loc[w].pc = "done" => loc[w].id \notin tmp

\* C3: when a parseable PDF has no text (every page has an empty text
\* layer), the upload that extracts it ends with an error body, the
\* structuring service is not invoked and no cache record is written for
\* that content.
C3_EmptyTextIsError ==
  /\ \A w \in Workers :
       LET l == loc[w]
       IN (l.pc = "done" /\ NoTextLayer(l.file) /\ InLog(l, "extract"))
          => /\ IsErrorBody(l.response.body)
             /\ ~InLog(l, "structure")
             /\ ~InLog(l, "store")
  /\ \A c \in Contents : NoTextLayer(c) => ~cache[get_file_hash(c)].exists

\* C4: cache round-trip.  When the last store for a key succeeded with
\* mapping v at time T, a lookup of that key made while the entry's age is
\* within the TTL returns exactly v (the empty mapping included).
C4_CacheRoundTrip ==
  \A w \in Workers :
    LET l == loc[w]
        st == stored[l.file_hash]
    IN (/\ l.pc = "check"
        /\ st.some /\ st.ok
        /\ l.t_lookup - st.timestamp <= CACHE_EXPIRY)
       => l.cached_result = Some(st.result)

\* A lookup of an entry aged exactly the TTL returns the stored non-empty
\* mapping.
C4_Witness ==
  \E w \in Workers :
    LET l == loc[w]
        st == stored[l.file_hash]
    IN /\ l.pc = "check"
       /\ st.some /\ st.ok
       /\ l.t_lookup - st.timestamp = CACHE_EXPIRY
       /\ st.result # << >>
       /\ l.cached_result = Some(st.result)

\* C5: expiry.  When the last store for a key succeeded at time T, a lookup
\* of that key at a time later than T + TTL reports absent, and once it has
\* returned no record exists for the key.
C5_Expiry ==
  \A w \in Workers :
    LET l == loc[w]
        st == stored[l.file_hash]
    IN (/\ l.pc = "check"
        /\ st.some /\ st.ok
        /\ l.t_lookup > st.timestamp + CACHE_EXPIRY)
       => /\ l.cached_result = None
          /\ ~cache[l.file_hash].exists

\* A lookup found the stored entry expired and has returned.
C5_Witness ==
  \E w \in Workers :
    LET l == loc[w]
        st == stored[l.file_hash]
    IN /\ l.pc = "check"
       /\ l.lk = "expired"
       /\ st.some /\ st.ok
       /\ l.t_entry = st.timestamp
       /\ l.t_lookup > st.timestamp + CACHE_EXPIRY
       /\ ~cache[l.file_hash].exists

\* C6: an upload whose file name does not end in ".pdf" (compared
\* case-insensitively) is answered with a raised 400 error before anything
\* is read or hashed: the request performs no step, and receiving it leaves
\* the cache and the temporary storage unchanged.
C6_RejectedState ==
  \A w \in Workers :
    LET l == loc[w]
    IN (l.pc # "idle" /\ ~PdfSuffixCI(l.filename))
       => /\ l.pc = "done"
          /\ l.response.status = 400
          /\ l.response.raised
          /\ l.log = << >>
          /\ l.file_hash = ""
          /\ l.id \notin tmp

C6_RejectedStep ==
  \A w \in Workers :
    (loc[w].pc = "idle" /\ loc'[w].pc # "idle" /\ ~PdfSuffixCI(loc'[w].filename))
    => (cache' = cache /\ tmp' = tmp /\ stored' = stored)

C6_NonPdfRejected == []C6_RejectedState /\ [][C6_RejectedStep]_vars

\* An upload named "apdf" has been rejected.
C6_Witness ==
  \E w \in Workers :
    /\ loc[w].pc = "done"
    /\ loc[w].filename = <<"a", "p", "d", "f">>
    /\ loc[w].response.status = 400
    /\ loc[w].log = << >>

\* C7: lookup is fail-open.  A lookup that has returned while the key has
\* no record (none was there, or it was expired and removed) or an
\* unreadable record returns absent; no lookup raises to the handler: a
\* request that looked up and was not served from the cache goes on to the
\* cache-miss path (the temporary file is written), also after a failed
\* read.
C7_LookupFailOpen ==
  \A w \in Workers :
    LET l == loc[w]
        rec == cache[l.file_hash]
    IN /\ (l.pc = "check" /\ (~rec.exists \/ ~PickleValid(rec.data)))
          => l.cached_result = None
       /\ (l.pc \in {"check", "unlink", "load"}) => l.response = NoResponse
       /\ (l.pc = "done" /\ InLog(l, "lookup") /\ ~Truthy(l.cached_result))
          => InLog(l, "tmpfile")

\* A request whose lookup failed on an unreadable record has completed
\* with a freshly structured result.
C7_Witness ==
  \E w \in Workers :
    LET l == loc[w]
    IN /\ l.pc = "done"
       /\ l.lk = "error"
       /\ l.cached_result = None
       /\ InLog(l, "tmpfile")
       /\ l.outcome = "fresh"

\* C8: a failing cache store never fails the request.  A request that
\* reached the store and whose store did not succeed still returns, with
\* status 200 and without raising, the mapping the structuring service
\* returned to it.
C8_StoreFailureSwallowed ==
  \A w \in Workers :
    LET l == loc[w]
    IN (l.pc = "done" /\ InLog(l, "store") /\ l.saved # "ok")
       => /\ l.response.status = 200
          /\ ~l.response.raised
          /\ l.extracted_json.some
          /\ l.response.body = l.extracted_json.val
          /\ l.extracted_json.val \in answered[l.file_hash]

\* A request returned its non-empty result although the write left a
\* truncated record behind.
C8_Witness ==
  \E w \in Workers :
    LET l == loc[w]
        rec == cache[l.file_hash]
    IN /\ l.pc = "done"
       /\ l.saved = "fail"
       /\ rec.exists /\ ~PickleValid(rec.data)
       /\ l.response.body = l.extracted_json.val
       /\ l.response.body # << >>

\* C9: error shaping.  A completed request is answered with a raised 400
\* error exactly when its file name is not a .pdf name; a request that
\* failed in the extractor, on empty extracted text or in the structuring
\* service ends with status 200, nothing raised, and a body carrying only
\* an `error` string field.
C9_ErrorShaping ==
  \A w \in Workers :
    LET l == loc[w]
    IN l.pc = "done"
       => /\ l.response.status = 400 <=> ~PdfSuffixCI(l.filename)
          /\ l.response.raised <=> ~PdfSuffixCI(l.filename)
          /\ l.response.status \in {200, 400}
          /\ Failed(l) => /\ l.response.status = 200
                          /\ ~l.response.raised
                          /\ IsErrorBody(l.response.body)

\* A request whose extraction produced the empty string ended with an
\* error body under status 200.
C9_Witness ==
  \E w \in Workers :
    LET l == loc[w]
    IN /\ l.pc = "done"
       /\ EmptyText(l)
       /\ l.response.status = 200
       /\ IsErrorBody(l.response.body)

C11_SameBytesSameEntry ==
  \A w \in Workers :
    LET l == loc[w]
    IN /\ l.file_hash # "" => l.file_hash = get_file_hash(l.file)
       /\ (/\ l.pc = "done"
           /\ PdfSuffixCI(l.filename)
           /\ prev.some
           /\ prev.file = l.file
           /\ prev.outcome = "fresh"
           /\ prev.saved = "ok"
           /\ now - prev.t_store <= CACHE_EXPIRY)
          => /\ l.lk = "hit"
             /\ l.t_entry = prev.t_store
             /\ l.outcome = "cached"
             /\ l.response.body = prev.body

\* C12: two overlapping uploads of the same content may both miss the
\* cache, both run the extractor and the structuring service and both
\* store.  When both have finished, the cache holds one readable entry for
\* the key, and its payload and timestamp are those of the save_to_cache
\* call that completed last.
C12_LastWriteWins ==
  \A w \in Workers, u \in Workers :
    LET l == loc[w]
        m == loc[u]
        k == l.file_hash
    IN (/\ w # u
        /\ l.pc = "done" /\ m.pc = "done"
        /\ m.file_hash = k
        /\ ~l.cached_result.some /\ ~m.cached_result.some
        /\ l.outcome = "fresh" /\ m.outcome = "fresh"
        /\ l.saved = "ok" /\ m.saved = "ok")
       => /\ cache[k].exists
          /\ PickleValid(cache[k].data)
          /\ PickleLoads(cache[k].data).result = stored[k].result
          /\ PickleLoads(cache[k].data).timestamp = stored[k].timestamp

\* C13: the steps of an upload happen in a fixed order.  The extractor is
\* invoked only after a cache lookup for the content's hash returned
\* absent; the structuring service is invoked only after the extractor
\* returned non-empty text; the cache store happens only after the
\* structuring service returned a result, and before the response is
\* returned (a request that answers with a fresh result has attempted its
\* store).
C13_Before(l, a, b) ==
  \A j \in 1..Len(l.log) :
    l.log[j] = b => \E i \in 1..(j - 1) : l.log[i] = a

C13_StepOrder ==
  \A w \in Workers :
    LET l == loc[w]
    IN /\ C13_Before(l, "hash", "lookup")
       /\ C13_Before(l, "lookup", "extract")
       /\ C13_Before(l, "extract", "structure")
       /\ C13_Before(l, "structure", "store")
       /\ InLog(l, "extract") => ~l.cached_result.some
       /\ InLog(l, "structure") => l.cv_text.some /\ l.cv_text.val # << >>
       /\ InLog(l, "store") => l.extracted_json.some
       /\ (l.pc = "done" /\ l.outcome = "fresh") => InLog(l, "store")

\* C14: a store overwrites.  The record of a key holds one (timestamp,
\* result) pair and nothing else: once a store of v2 for key k has
\* succeeded, whatever an earlier store had left there, the entry has
\* payload v2 and the timestamp of this store, a lookup returns v2, and the
\* TTL counts from this store (a hit up to CACHE_EXPIRY later, expired
\* after that).
C14_StoreOverwrites ==
  \A w \in Workers :
    LET l == loc[w]
        k == l.file_hash
        v2 == l.extracted_json.val
    IN (l.saved = "ok" /\ l.pc \in {"return", "done"})
       => /\ cache[k].exists
          /\ cache[k].data = PickleDumps(l.t_store, v2)
          /\ PickleValid(cache[k].data)
          /\ PickleLoads(cache[k].data) = [timestamp |-> l.t_store, result |-> v2]
          /\ \A n \in {l.t_store, l.t_store + CACHE_EXPIRY} :
               /\ CacheLoadResult(Blank, cache[k], n).lk = "hit"
               /\ CacheLoadResult(Blank, cache[k], n).cached_result = Some(v2)
               /\ CacheLoadResult(Blank, cache[k], n).t_entry = l.t_store
          /\ CacheLoadResult(Blank, cache[k], l.t_store + CACHE_EXPIRY + 1).lk
               = "expired"

\* A request read the record an earlier store had written (the empty mapping,
\* stamped t_entry) and has stored another mapping over it at a later time.
C14_Witness ==
  \E w \in Workers :
    LET l == loc[w]
    IN /\ l.pc = "return"
       /\ l.saved = "ok"
       /\ l.lk = "hit"
       /\ l.cached_result = Some(<< >>)
       /\ l.extracted_json.val # << >>
       /\ l.t_store > l.t_entry

\* C15: the TTL boundary, with the TTL 604800 seconds.  A lookup at time N
\* that read a readable entry with timestamp T returns the stored result
\* and leaves the record in place exactly when N - T <= 604800 (an entry
\* aged exactly the TTL is a hit, and so is one stamped in the future of
\* N), and returns absent and has removed the record exactly when
\* N - T > 604800.
C15_TtlBoundary ==
  \A w \in Workers :
    LET l == loc[w]
        k == l.file_hash
        T == stored[k].timestamp
        N == l.t_lookup
    IN (l.pc = "check" /\ l.lk \in {"hit", "expired"})
       => /\ stored[k].ok
          /\ l.t_entry = T
          /\ (N - T <= 604800)
             => /\ l.lk = "hit"
                /\ l.cached_result = Some(stored[k].result)
                /\ cache[k] = [exists |-> TRUE,
                               data |-> PickleDumps(T, stored[k].result)]
          /\ (N - T > 604800)
             => /\ l.lk = "expired"
                /\ l.cached_result = None
                /\ ~cache[k].exists

\* A lookup hit an entry whose timestamp lies in the future of the lookup.
C15_Witness ==
  \E w \in Workers :
    LET l == loc[w]
    IN /\ l.pc = "check"
       /\ l.lk = "hit"
       /\ l.t_entry > l.t_lookup
       /\ l.cached_result = Some(stored[l.file_hash].result)

\* C16: every upload request terminates.  No request stays in an
\* intermediate step forever (the extractor and the structuring service
\* return or fail): again and again every handler instance is idle or at
\* the end of its request.  A request ends with exactly one of four
\* outcomes: the
\* client error for a bad file type (status 400), the cached result, the
\* fresh result, or an error body; once it has ended, its response does not
\* change any more.
C16_Rejected(l) ==
  /\ l.response.status = 400
  /\ l.response.raised
  /\ ~InLog(l, "read")

C16_Cached(l) ==
  /\ l.response.status = 200
  /\ ~l.response.raised
  /\ ~IsErrorBody(l.response.body)
  /\ InLog(l, "lookup")
  /\ ~InLog(l, "extract")
  /\ l.response.body = l.cached_result.val

C16_Fresh(l) ==
  /\ l.response.status = 200
  /\ ~l.response.raised
  /\ ~IsErrorBody(l.response.body)
  /\ InLog(l, "structure")
  /\ l.extracted_json.some
  /\ l.response.body = l.extracted_json.val

C16_ErrorBody(l) ==
  /\ l.response.status = 200
  /\ ~l.response.raised
  /\ IsErrorBody(l.response.body)

C16_OneOutcome(l) ==
  Cardinality({i \in 1..4 :
                 \/ i = 1 /\ C16_Rejected(l)
                 \/ i = 2 /\ C16_Cached(l)
                 \/ i = 3 /\ C16_Fresh(l)
                 \/ i = 4 /\ C16_ErrorBody(l)}) = 1

C16_Ended == \A w \in Workers : loc[w].pc = "done" => C16_OneOutcome(loc[w])

\* An ended request keeps its response until the instance is released, and
\* an instance is released by nothing but the end of its request.
C16_EndedStep ==
  \A w \in Workers :
    /\ loc[w].pc = "done" => loc'[w] \in {loc[w], Blank}
    /\ loc'[w].pc = "idle" => loc[w].pc \in {"idle", "done"}

C16_Terminates ==
  /\ []C16_Ended
  /\ [][C16_EndedStep]_vars
  /\ \A w \in Workers : []<>(loc[w].pc \in {"idle", "done"})

\* A request has gone through every step of the handler and ended with a
\* fresh result.
C16_Witness ==
  \E w \in Workers :
    /\ loc[w].pc = "done"
    /\ C16_Fresh(loc[w])
    /\ InLog(loc[w], "store")

\* C17: a lookup removes a record only if that record's own timestamp is
\* older than the TTL.  Whatever the interleaving of lookups and stores on
\* a key, a readable record that a step removes is expired at that moment:
\* a record a concurrent store has freshly written is never deleted by a
\* lookup that read the previous, expired record.
C17_Removal(k) ==
  (cache[k].exists /\ PickleValid(cache[k].data) /\ ~cache'[k].exists)
  => now - PickleLoads(cache[k].data).timestamp > CACHE_EXPIRY

C17_UnlinkOnlyExpired == [][\A k \in Hashes : C17_Removal(k)]_vars

\* C18: a cache hit leaves the entry unchanged.  When a lookup has returned
\* a result, the record still holds the payload and the timestamp the
\* lookup read, so the entry expires a TTL after its last store however
\* often it is read; and no lookup or upload removes an entry that is
\* within its TTL: when the upload whose lookup returned the result has
\* ended, the key still has a readable entry, the very same one when the
\* upload was served from the cache.
C18_HitLeavesEntry ==
  \A w \in Workers :
    LET l == loc[w]
        k == l.file_hash
        read == [exists |-> TRUE,
                 data |-> PickleDumps(l.t_entry, l.cached_result.val)]
    IN l.lk = "hit"
       => /\ l.pc = "check" => cache[k] = read
          /\ (l.pc = "done" /\ l.outcome = "cached") => cache[k] = read
          /\ l.pc = "done" => cache[k].exists /\ PickleValid(cache[k].data)

\* C19 (as stated): recovery from an unreadable record.  A lookup whose
\* read fails leaves the corrupt record in place; every lookup of the key
\* returns absent as long as the record is unreadable, and the record stays
\* unreadable until a store for the key succeeds; after the next successful
\* upload of that content the record is overwritten and a lookup returns
\* the new result.
C19_InPlace ==
  \A w \in Workers :
    LET l == loc[w]
        k == l.file_hash
    IN /\ (l.lk = "error" /\ l.pc = "check")
          => /\ l.cached_result = None
             /\ cache[k].exists
             /\ ~PickleValid(cache[k].data)
       /\ (l.lk = "error" /\ l.pc = "done" /\ l.saved # "ok")
          => /\ cache[k].exists
             /\ ~PickleValid(cache[k].data)

C19_StillAbsent ==
  \A k \in Hashes :
    (cache[k].exists /\ ~PickleValid(cache[k].data))
    => \A n \in {now, now + CACHE_EXPIRY + 1} :
         /\ CacheLoadResult(Blank, cache[k], n).cached_result = None
         /\ CacheLoadResult(Blank, cache[k], n).pc = "check"

C19_Overwritten(l) ==
  LET k == l.file_hash
  IN /\ cache[k].exists
     /\ PickleValid(cache[k].data)
     /\ PickleLoads(cache[k].data).result = l.extracted_json.val
     /\ CacheLoadResult(Blank, cache[k], l.t_store).cached_result
          = Some(l.extracted_json.val)

C19_RecoveryByUpload ==
  /\ C19_InPlace
  /\ C19_StillAbsent
  /\ \A w \in Workers :
       (loc[w].lk = "error" /\ loc[w].pc = "done" /\ loc[w].outcome = "fresh")
       => C19_Overwritten(loc[w])

\* C19 (amended): as above, but the record is overwritten, and a lookup
\* returns the new result, after the next upload of that content whose
\* cache store succeeds; an upload that succeeds while its store fails
\* leaves the record unreadable.
C19_RecoveryByStore ==
  /\ C19_InPlace
  /\ C19_StillAbsent
  /\ \A w \in Workers :
       (/\ loc[w].lk = "error"
        /\ loc[w].pc = "done"
        /\ loc[w].outcome = "fresh"
        /\ loc[w].saved = "ok")
       => C19_Overwritten(loc[w])

\* An upload whose lookup failed on an unreadable record has stored its
\* result over it and ended.
C19_Witness ==
  \E w \in Workers :
    /\ loc[w].lk = "error"
    /\ loc[w].pc = "done"
    /\ loc[w].outcome = "fresh"
    /\ loc[w].saved = "ok"
    /\ C19_Overwritten(loc[w])

====
